---- MODULE Spec2Model ----
(***************************************************************************)
(* Model of backend.py: the upload / ingest pipeline (upload_file,         *)
(* process_*_file, insert_data), the SQLite table `data` it writes, the    *)
(* scratch upload directory, and the read / delete / init endpoints.       *)
(*                                                                         *)
(* Request handlers run in threads (one per request).  A handler is split  *)
(* into steps exactly where it touches shared state: the upload directory  *)
(* and the database file.  Each sqlite3 connection works in the module's   *)
(* default transaction mode: the first INSERT/DELETE of a connection       *)
(* opens a transaction, which takes the database's single write lock;      *)
(* the changes become visible to other connections at conn.commit().       *)
(***************************************************************************)
EXTENDS Integers, Sequences, FiniteSets, TLC

(***************************************************************************)
(* Bounds of the model.                                                    *)
(***************************************************************************)
NumReq == 2        \* request handler threads
MaxId == 4         \* largest id the table hands out in a run
MaxOffset == 2     \* largest ?offset= / ?limit= tried on GET /api/data

(***************************************************************************)
(* Loosely typed values: what json.load / pandas put in a field mapping,   *)
(* and what a column holds.  Python None and SQL NULL are Null.            *)
(***************************************************************************)
Absent == [t |-> "absent"]
Null == [t |-> "null"]
Num(n) == [t |-> "num", n |-> n]
Str(s) == [t |-> "str", s |-> s]
Arr(r) == [t |-> "list", repr |-> r]

\* The thirteen columns insert_data fills.
Fields ==
  {"title", "topic", "sector", "region", "country", "source", "end_year",
   "intensity", "likelihood", "relevance", "pest", "swot", "url"}

\* The default transaction mode of a sqlite3 connection: a reader on
\* another connection sees the committed table, not the writer's changes.
ReadViewDirty(committed, working) == working
ReadView(committed, working) == committed

\* dict.get(key): None when the key is missing.
Get(item, f) == IF item.m[f] = Absent THEN Null ELSE item.m[f]

\* Python truthiness of a value.
Truthy(v) ==
  CASE v.t = "null" -> FALSE
    [] v.t = "num" -> v.n # 0
    [] v.t = "str" -> v.s # ""
    [] OTHER -> TRUE

\* Python str(v).
StrOf(v) ==
  CASE v.t = "num" -> ToString(v.n)
    [] v.t = "str" -> v.s
    [] v.t = "list" -> v.repr
    [] OTHER -> "None"

\* The end_year parameter of the INSERT.
EndYearParam(item) ==
  IF Truthy(Get(item, "end_year")) THEN Str(StrOf(Get(item, "end_year"))) ELSE Null

\* The parameter tuple of the INSERT, by column.
Params(item) ==
  [f \in Fields |-> IF f = "end_year" THEN EndYearParam(item) ELSE Get(item, f)]

\* sqlite3 binds None, numbers and text; a list or dict parameter raises.
Bindable(p) == \A f \in Fields : p[f].t # "list"

\* The INSERT of one item raises before touching the database when the item
\* is no dict (item.get raises) or a parameter cannot be bound.
InsertRaises(item) == ~item.obj \/ ~Bindable(Params(item))

\* INTEGER PRIMARY KEY AUTOINCREMENT: one more than the largest id the
\* table has ever held (sqlite_sequence), whatever rows are left in it.
NextIdReuse(seqno, rows) ==
  IF rows = <<>> THEN 1 ELSE rows[Len(rows)].id + 1
NextId(seqno, rows) == seqno + 1

\* count += 1 is the last statement of the try block: skipped on a raise.
CountAll(count, raised) == count + 1
CountAfter(count, raised) == IF raised THEN count ELSE count + 1

\* The rows after the INSERT of item (unchanged when it raises).
RowsAfter(rows, seqno, item, raised) ==
  IF raised THEN rows
  ELSE Append(rows, [id |-> NextId(seqno, rows), f |-> Params(item)])

(***************************************************************************)
(* File names.  A name is a sequence of tokens: a letter, the dot, the     *)
(* path separator, a non-ASCII letter, or an extension word.               *)
(***************************************************************************)
ALLOWED_EXTENSIONS == {<<"json">>, <<"csv">>, <<"xlsx">>, <<"xls">>}

\* str.lower() on one token and on a name.
LowerTok(tok) == IF tok = "JSON" THEN "json" ELSE tok
Lower(name) == [i \in 1..Len(name) |-> LowerTok(name[i])]

HasDot(name) == \E i \in 1..Len(name) : name[i] = "."
LastDot(name) == CHOOSE i \in 1..Len(name) :
  name[i] = "." /\ \A j \in (i + 1)..Len(name) : name[j] # "."

\* name.rsplit('.', 1)[1]; only defined when the name has a dot.
Rsplit1(name) == SubSeq(name, LastDot(name) + 1, Len(name))

allowed_file(name) == HasDot(name) /\ Lower(Rsplit1(name)) \in ALLOWED_EXTENSIONS

\* werkzeug's secure_filename: non-ASCII characters are dropped, path
\* separators become "_", leading and trailing dots and underscores go.
IsAscii(tok) == tok # "é"
SepToUnderscore(name) == [i \in 1..Len(name) |-> IF name[i] = "/" THEN "_" ELSE name[i]]
RECURSIVE StripLeft(_)
StripLeft(name) ==
  IF name # <<>> /\ Head(name) \in {".", "_"} THEN StripLeft(Tail(name)) ELSE name
RECURSIVE StripRight(_)
StripRight(name) ==
  IF name # <<>> /\ name[Len(name)] \in {".", "_"}
  THEN StripRight(SubSeq(name, 1, Len(name) - 1)) ELSE name
secure_filename(name) ==
  StripRight(StripLeft(SepToUnderscore(SelectSeq(name, IsAscii))))

\* option.lower() == 'append', option defaulting to 'replace'.
Options == {"absent", "replace", "append", "APPEND"}
IsAppend(option) == option \in {"append", "APPEND"}

(***************************************************************************)
(* Field mappings and uploaded files.                                      *)
(***************************************************************************)
Obj(title, endYear) ==
  [obj |-> TRUE,
   m |-> [f \in Fields |->
            CASE f = "title" -> title
              [] f = "end_year" -> endYear
              [] OTHER -> Absent]]
\* An array element that is no JSON object (a number).
NonDict == [obj |-> FALSE, m |-> [f \in Fields |-> Absent]]

ItemA == Obj(Str("A"), Absent)
ItemB == Obj(Str("B"), Num(2025))
ItemZ == Obj(Str("Z"), Num(0))
ItemE == Obj(Str("E"), Str(""))
ItemR == Obj(Str("R"), Str("2020-2025"))
ItemN == Obj(Str("N"), Null)
ItemU == Obj(Arr("[1]"), Str("2030"))

\* The two records of init_database.
Sample(title, topic, sector, region, country, source, endYear, intensity, likelihood, relevance, pest, swot, url) ==
  [obj |-> TRUE,
   m |-> [f \in Fields |->
            CASE f = "title" -> Str(title) [] f = "topic" -> Str(topic)
              [] f = "sector" -> Str(sector) [] f = "region" -> Str(region)
              [] f = "country" -> Str(country) [] f = "source" -> Str(source)
              [] f = "end_year" -> Str(endYear) [] f = "intensity" -> Num(intensity)
              [] f = "likelihood" -> Num(likelihood) [] f = "relevance" -> Num(relevance)
              [] f = "pest" -> Str(pest) [] f = "swot" -> Str(swot)
              [] OTHER -> Str(url)]]
sample_data ==
  << Sample("Climate change impacts on agriculture", "climate", "agriculture",
            "North America", "United States", "NASA", "2025", 5, 3, 4,
            "Environmental", "Threat", "https://climate.nasa.gov"),
     Sample("Renewable energy adoption trends", "energy", "utilities",
            "Europe", "Germany", "IEA", "2023", 4, 5, 5,
            "Technological", "Opportunity", "https://www.iea.org") >>

\* What a decoder makes of a file: an error, or a value.
DecodeError == [err |-> TRUE, isList |-> FALSE, items |-> <<>>]
List(items) == [err |-> FALSE, isList |-> TRUE, items |-> items]
Single(item) == [err |-> FALSE, isList |-> FALSE, items |-> <<item>>]

\* The uploaded byte strings of the model, named; NoBytes is no file.
NoBytes == "none"
ContentIds ==
  {"good", "zero", "range", "mixed", "unbind", "single", "empty", "garbage",
   "table", "sheet"}

\* json.load of the bytes.
json_load(c) ==
  CASE c = "good" -> List(<<ItemA, ItemB>>)
    [] c = "zero" -> List(<<ItemZ, ItemE>>)
    [] c = "range" -> List(<<ItemR, ItemN>>)
    [] c = "mixed" -> List(<<ItemA, NonDict, ItemB>>)
    [] c = "unbind" -> List(<<ItemU, ItemR>>)
    [] c = "single" -> Single(ItemB)
    [] c = "empty" -> List(<<>>)
    [] OTHER -> DecodeError

\* pd.read_csv(...).to_dict('records'): one-line JSON text is a header
\* row with no data rows.
read_csv(c) ==
  CASE c = "table" -> List(<<ItemA>>)
    [] c \in {"garbage", "sheet"} -> DecodeError
    [] OTHER -> List(<<>>)

\* pd.read_excel(...).to_dict('records').
read_excel(c) == IF c = "sheet" THEN List(<<ItemB>>) ELSE DecodeError

\* if not isinstance(data, list): data = [data]
AsList(val) == val.items

\* The decoder upload_file picks for a (lower-cased) extension.
Decode(ext, c) ==
  CASE ext = <<"json">> -> json_load(c)
    [] ext = <<"csv">> -> read_csv(c)
    [] OTHER -> read_excel(c)

\* SELECT * FROM data [LIMIT ? OFFSET ?]: OFFSET only goes with LIMIT; a
\* negative LIMIT is no limit and a negative OFFSET is 0.
Min(a, b) == IF a < b THEN a ELSE b
Max(a, b) == IF a > b THEN a ELSE b
Page(rows, hasLimit, limit, offset) ==
  IF hasLimit
  THEN SubSeq(rows, Max(offset, 0) + 1,
              IF limit < 0 THEN Len(rows) ELSE Min(Len(rows), Max(offset, 0) + limit))
  ELSE rows

\* DELETE FROM data runs first unless appending.
DeletesAlways(append) == TRUE
DeletesNever(append) == FALSE
DeletesFirst(append) == ~append

\* The status upload_file answers with for a processing result.
UploadStatus(isError) == IF isError THEN 400 ELSE 200

(***************************************************************************)
(* State.                                                                  *)
(***************************************************************************)
VARIABLES
  table,    \* the committed rows of table data, in rowid order
  seqno,    \* the committed sqlite_sequence entry of data
  lock,     \* the handler whose connection holds the write lock, or 0
  wtable,   \* the rows as the lock holder's transaction sees them
  wseqno,   \* sqlite_sequence as the lock holder's transaction sees it
  assigned, \* every id an INSERT has given to a row, in order (history)
  fs,       \* the upload directory: path -> bytes of the file there
  rq        \* per handler thread: the request it serves and its locals

vars == <<table, seqno, lock, wtable, wseqno, assigned, fs, rq>>

H == 1..NumReq

\* File names requests upload under.
Filenames ==
  { <<"a", ".", "json">>, <<"a", "é", ".", "json">>, <<"b", ".", "JSON">>,
    <<"é", ".", "json">>, <<"x", "/", "a", ".", "csv">>, <<"a", ".", "xlsx">>,
    <<"a", ".", "txt">>, <<"a">>, <<>> }

\* os.path.join(UPLOAD_FOLDER, filename), for every name that gets saved.
Paths == {secure_filename(n) : n \in {x \in Filenames : allowed_file(x)}}

\* A handler thread with no request.  Fields: pc, the place in the
\* handler; op, the endpoint; hasFile, fname, sent: the file part, its name
\* and bytes; path, ext, append, data, i, count, error, status, out, n:
\* the handler's locals and its answer.  History, read by the properties
\* only: saved (file.save ran), got (the bytes decoded), pre (the table
\* insert_data found), exc (what was raised), mid and snap (see Reading).
Idle ==
  [pc |-> "idle", op |-> "none", hasFile |-> FALSE, fname |-> <<>>,
   sent |-> NoBytes, path |-> <<>>, saved |-> FALSE, ext |-> <<>>,
   got |-> NoBytes, data |-> <<>>, append |-> FALSE, i |-> 1, count |-> 0,
   pre |-> <<>>, exc |-> "none", error |-> FALSE, status |-> 0,
   hasLimit |-> FALSE, limit |-> 0, offset |-> 0, out |-> <<>>, n |-> 0,
   mid |-> 0, snap |-> <<>>]

Init ==
  /\ table = <<>>
  /\ seqno = 0
  /\ lock = 0
  /\ wtable = <<>>
  /\ wseqno = 0
  /\ assigned = <<>>
  /\ fs = [p \in Paths |-> NoBytes]
  /\ rq = [h \in H |-> Idle]

Set(h, r) == rq' = [rq EXCEPT ![h] = r]
DbUnchanged == UNCHANGED <<table, seqno, lock, wtable, wseqno, assigned>>

\* Ids still to be handed out to the batches of handlers inside
\* insert_data; an ingest starts only while ids up to MaxId are left.
RECURSIVE Planned(_)
Planned(S) ==
  IF S = {} THEN 0
  ELSE LET g == CHOOSE x \in S : TRUE
       IN (IF rq[g].pc = "loop" THEN Len(rq[g].data) - (rq[g].i - 1) ELSE 0)
          + Planned(S \ {g})
Room(n) == wseqno + Planned(H) + n <= MaxId

(***************************************************************************)
(* POST /api/upload                                                        *)
(***************************************************************************)
\* upload_file up to the try block: the checks, secure_filename, file.save,
\* the option and file_ext.  A sanitised name without a dot makes
\* filename.rsplit('.', 1)[1] raise IndexError outside the try block.
UploadSave(h, hasFile, name, c, option) ==
  /\ rq[h].pc = "idle"
  /\ LET r == [Idle EXCEPT !.op = "upload", !.hasFile = hasFile,
                           !.fname = IF hasFile THEN name ELSE <<>>,
                           !.sent = IF hasFile THEN c ELSE NoBytes]
         path == secure_filename(name)
     IN IF ~hasFile \/ name = <<>> \/ ~allowed_file(name)
        THEN /\ Set(h, [r EXCEPT !.pc = "done", !.status = 400, !.exc = "validation"])
             /\ UNCHANGED fs
        ELSE /\ fs' = [fs EXCEPT ![path] = c]
             /\ IF HasDot(path)
                THEN Set(h, [r EXCEPT !.pc = "saved", !.path = path, !.saved = TRUE,
                                      !.append = IsAppend(option),
                                      !.ext = Lower(Rsplit1(path))])
                ELSE Set(h, [r EXCEPT !.pc = "done", !.path = path, !.saved = TRUE,
                                      !.append = IsAppend(option),
                                      !.status = 500, !.exc = "index"])
  /\ DbUnchanged

\* process_json_file / process_csv_file / process_excel_file up to the call
\* of insert_data: open the scratch file and decode it.  Every exception is
\* turned into an {'error': ...} result.
UploadRead(h) ==
  /\ rq[h].pc = "saved"
  /\ LET r == rq[h]
         c == fs[r.path]
     IN IF r.ext \notin ALLOWED_EXTENSIONS
        THEN Set(h, [r EXCEPT !.pc = "cleanup", !.status = 400, !.exc = "validation"])
        ELSE IF c = NoBytes
        THEN Set(h, [r EXCEPT !.pc = "cleanup", !.error = TRUE, !.exc = "io"])
        ELSE IF Decode(r.ext, c).err
        THEN Set(h, [r EXCEPT !.pc = "cleanup", !.got = c, !.error = TRUE,
                              !.exc = "decode"])
        ELSE Set(h, [r EXCEPT !.pc = "enter", !.got = c,
                              !.data = AsList(Decode(r.ext, c))])
  /\ UNCHANGED fs
  /\ DbUnchanged

\* The rest of upload_file: the status for the result, and the finally
\* block's os.remove (which ignores a missing file).
UploadCleanup(h) ==
  /\ rq[h].pc = "cleanup"
  /\ LET r == rq[h]
     IN Set(h, [r EXCEPT !.pc = "done",
                         !.status = IF r.status # 0 THEN r.status
                                    ELSE UploadStatus(r.error)])
  /\ fs' = [fs EXCEPT ![rq[h].path] = NoBytes]
  /\ DbUnchanged

(***************************************************************************)
(* insert_data, called by the upload handler and by init_database          *)
(***************************************************************************)
\* insert_data returns or raises: back in the caller.  An exception is
\* caught by process_*_file (upload); init_database does not catch it.
Leave(r, raised) ==
  IF r.op = "upload"
  THEN [r EXCEPT !.pc = "cleanup", !.error = raised,
                 !.exc = IF raised THEN "store" ELSE "none"]
  ELSE [r EXCEPT !.pc = "done", !.status = IF raised THEN 500 ELSE 200,
                 !.exc = IF raised THEN "store" ELSE "none"]

\* connect, and DELETE FROM data unless appending: the DELETE opens the
\* connection's transaction and takes the write lock.
InsertEnter(h) ==
  /\ rq[h].pc = "enter"
  /\ Room(Len(rq[h].data))
  /\ IF DeletesFirst(rq[h].append)
     THEN /\ lock = 0
          /\ lock' = h
          /\ wtable' = <<>>
          /\ UNCHANGED <<table, seqno, wseqno, assigned>>
     ELSE DbUnchanged
  /\ Set(h, [rq[h] EXCEPT !.pc = "loop", !.pre = table])
  /\ UNCHANGED fs

\* The DELETE finds the database locked by another connection until the
\* busy timeout: sqlite3.OperationalError leaves insert_data.
InsertEnterBusy(h) ==
  /\ rq[h].pc = "enter"
  /\ DeletesFirst(rq[h].append)
  /\ lock \notin {0, h}
  /\ Set(h, Leave(rq[h], TRUE))
  /\ UNCHANGED fs
  /\ DbUnchanged

\* One turn of the loop: the INSERT of data[i], and count += 1; an
\* exception is caught and the loop goes on.
InsertOne(h) ==
  /\ rq[h].pc = "loop"
  /\ rq[h].i <= Len(rq[h].data)
  /\ LET r == rq[h]
         item == r.data[r.i]
         raised == InsertRaises(item)
     IN /\ IF raised
           THEN DbUnchanged
           ELSE /\ lock \in {0, h}
                /\ lock' = h
                /\ wtable' = RowsAfter(wtable, wseqno, item, raised)
                /\ wseqno' = Max(wseqno, NextId(wseqno, wtable))
                /\ assigned' = Append(assigned, NextId(wseqno, wtable))
                /\ UNCHANGED <<table, seqno>>
        /\ Set(h, [r EXCEPT !.i = r.i + 1, !.count = CountAfter(r.count, raised)])
  /\ UNCHANGED fs

\* The INSERT finds the database locked by another connection until the
\* busy timeout: the exception is caught like any other.
InsertOneBusy(h) ==
  /\ rq[h].pc = "loop"
  /\ rq[h].i <= Len(rq[h].data)
  /\ ~InsertRaises(rq[h].data[rq[h].i])
  /\ lock \notin {0, h}
  /\ Set(h, [rq[h] EXCEPT !.i = rq[h].i + 1,
                          !.count = CountAfter(rq[h].count, TRUE)])
  /\ UNCHANGED fs
  /\ DbUnchanged

\* conn.commit(), conn.close() and the return of {'count', 'message'}.
InsertCommit(h) ==
  /\ rq[h].pc = "loop"
  /\ rq[h].i > Len(rq[h].data)
  /\ IF lock = h
     THEN /\ table' = wtable
          /\ seqno' = wseqno
          /\ lock' = 0
          /\ UNCHANGED <<wtable, wseqno, assigned>>
     ELSE DbUnchanged
  /\ Set(h, Leave(rq[h], FALSE))
  /\ UNCHANGED fs

(***************************************************************************)
(* POST /api/init, DELETE /api/delete, GET /api/data, GET /api/data/count  *)
(***************************************************************************)
InitDatabase(h) ==
  /\ rq[h].pc = "idle"
  /\ Set(h, [Idle EXCEPT !.pc = "enter", !.op = "init", !.data = sample_data,
                         !.append = FALSE])
  /\ UNCHANGED fs
  /\ DbUnchanged

\* delete_data: DELETE FROM data and commit.
DeleteData(h) ==
  /\ rq[h].pc = "idle"
  /\ lock = 0
  /\ table' = <<>>
  /\ wtable' = <<>>
  /\ UNCHANGED <<seqno, wseqno, lock, assigned>>
  /\ Set(h, [Idle EXCEPT !.pc = "deleted", !.op = "delete", !.pre = table])
  /\ UNCHANGED fs

\* delete_data finds the database locked: the exception is not caught.
DeleteDataBusy(h) ==
  /\ rq[h].pc = "idle"
  /\ lock # 0
  /\ Set(h, [Idle EXCEPT !.pc = "done", !.op = "delete", !.status = 500,
                         !.exc = "store"])
  /\ UNCHANGED fs
  /\ DbUnchanged

\* delete_data: SELECT COUNT(*) for 'remaining', and the response.
DeleteCount(h) ==
  /\ rq[h].pc = "deleted"
  /\ Set(h, [rq[h] EXCEPT !.pc = "done", !.status = 200,
                          !.n = Len(ReadView(table, wtable))])
  /\ UNCHANGED fs
  /\ DbUnchanged

\* What a read records about a replace ingest in progress on another
\* connection: the handler, and the table it found before its DELETE.
Reading(r) ==
  IF lock # 0 /\ rq[lock].pc = "loop" /\ ~rq[lock].append
  THEN [r EXCEPT !.mid = lock, !.snap = rq[lock].pre]
  ELSE r

get_data(h, hasLimit, limit, offset) ==
  /\ rq[h].pc = "idle"
  /\ Set(h, Reading([Idle EXCEPT !.pc = "done", !.op = "data", !.status = 200,
                         !.hasLimit = hasLimit, !.limit = limit, !.offset = offset,
                         !.out = Page(ReadView(table, wtable), hasLimit, limit, offset)]))
  /\ UNCHANGED fs
  /\ DbUnchanged

get_data_count(h) ==
  /\ rq[h].pc = "idle"
  /\ Set(h, Reading([Idle EXCEPT !.pc = "done", !.op = "count", !.status = 200,
                                 !.n = Len(ReadView(table, wtable))]))
  /\ UNCHANGED fs
  /\ DbUnchanged

\* The response is sent; the thread is free for the next request.
Respond(h) ==
  /\ rq[h].pc = "done"
  /\ Set(h, Idle)
  /\ UNCHANGED fs
  /\ DbUnchanged

(***************************************************************************)
(* Specifications.                                                         *)
(***************************************************************************)
\* The steps of an upload, and of insert_data, once started.
UploadStep(h) ==
  \/ UploadRead(h)
  \/ UploadCleanup(h)

InsertStep(h) ==
  \/ InsertEnter(h)
  \/ InsertOne(h)
  \/ InsertCommit(h)

\* SpecSeq: one handler thread serving one request after the other; every
\* JSON batch, both modes, every page of GET /api/data.
JsonContents == ContentIds \ {"table", "sheet"}

NextSeq ==
  \/ \E c \in JsonContents, option \in Options :
       UploadSave(1, TRUE, <<"a", ".", "json">>, c, option)
  \/ InitDatabase(1)
  \/ DeleteData(1)
  \/ DeleteCount(1)
  \/ \E hasLimit \in BOOLEAN, limit \in -1..MaxOffset, offset \in 0..MaxOffset :
       get_data(1, hasLimit, IF hasLimit THEN limit ELSE 0, offset)
  \/ get_data_count(1)
  \/ UploadStep(1)
  \/ InsertStep(1)
  \/ Respond(1)

SpecSeq == Init /\ [][NextSeq]_vars

\* SpecFiles: one handler thread; uploads under every file name, with and
\* without a file part, decoded by every decoder.
FileContents == {"good", "garbage", "table", "sheet"}

NextFiles ==
  \/ \E hasFile \in BOOLEAN, name \in Filenames, c \in FileContents :
       UploadSave(1, hasFile, name, c, "absent")
  \/ UploadStep(1)
  \/ InsertStep(1)
  \/ Respond(1)

SpecFiles == Init /\ [][NextFiles]_vars

\* Spec: concurrent handler threads; uploads whose sanitised names
\* coincide, well-formed and malformed, in both modes.
RaceFilenames == { <<"a", ".", "json">>, <<"a", "é", ".", "json">>, <<"a", ".", "txt">> }
RaceContents == {"good", "single", "garbage"}

Next ==
  \E h \in H :
    \/ \E name \in RaceFilenames, c \in RaceContents, option \in {"absent", "append"} :
         UploadSave(h, TRUE, name, c, option)
    \/ UploadStep(h)
    \/ InsertStep(h)
    \/ InsertEnterBusy(h)
    \/ InsertOneBusy(h)
    \/ Respond(h)

Spec == Init /\ [][Next]_vars

\* SpecReaders: concurrent handler threads; replace ingests, delete-all
\* and readers, each on its own connection.
NextReaders ==
  \E h \in H :
    \/ InitDatabase(h)
    \/ UploadSave(h, TRUE, <<"a", ".", "json">>, "good", "replace")
    \/ DeleteData(h)
    \/ DeleteDataBusy(h)
    \/ DeleteCount(h)
    \/ get_data(h, FALSE, 0, 0)
    \/ get_data_count(h)
    \/ UploadStep(h)
    \/ InsertStep(h)
    \/ InsertEnterBusy(h)
    \/ Respond(h)

SpecReaders == Init /\ [][NextReaders]_vars

(***************************************************************************)
(* Properties.                                                             *)
(***************************************************************************)
\* insert_data has returned normally to handler h (its batch is rq[h].data,
\* the table it found is rq[h].pre).
Ingested(h) ==
  /\ rq[h].op \in {"upload", "init"}
  /\ rq[h].pc \in {"cleanup", "done"}
  /\ rq[h].exc = "none"

WellFormed(item) == ~InsertRaises(item)
AllWellFormed(data) == \A k \in 1..Len(data) : WellFormed(data[k])
Ids(rows) == {rows[k].id : k \in 1..Len(rows)}

\* The rows the ingest of h added: all of the table after a replace, the
\* rows behind the ones found after an append.
Added(h) ==
  SubSeq(table, IF rq[h].append THEN Len(rq[h].pre) + 1 ELSE 1, Len(table))

\* C1: after a replace ingest of N well-formed records, run alone, the
\* table holds exactly the N records of the batch, in order, none of the
\* rows it held before, and the returned count is N.
C1_ReplaceLeavesBatch ==
  \A h \in H :
    (Ingested(h) /\ ~rq[h].append /\ AllWellFormed(rq[h].data)) =>
      /\ Len(table) = Len(rq[h].data)
      /\ \A k \in 1..Len(table) : table[k].f = Params(rq[h].data[k])
      /\ Ids(table) \cap Ids(rq[h].pre) = {}
      /\ rq[h].count = Len(rq[h].data)

\* C1 witness: POST /api/init answered right after a POST /api/init: the
\* table found held the two sample records, and holds two records now.
C1_Witness ==
  /\ rq[1].op = "init" /\ rq[1].pc = "done" /\ rq[1].status = 200
  /\ Len(rq[1].pre) = 2
  /\ rq[1].pre[1].f = Params(sample_data[1])
  /\ rq[1].pre[2].f = Params(sample_data[2])
  /\ Len(table) = 2

\* C2: after an append ingest of N well-formed records over M records, run
\* alone, the table holds M+N records and starts with the M records found,
\* ids and fields unchanged.
C2_AppendKeepsRows ==
  \A h \in H :
    (Ingested(h) /\ rq[h].append /\ AllWellFormed(rq[h].data)) =>
      /\ Len(table) = Len(rq[h].pre) + Len(rq[h].data)
      /\ SubSeq(table, 1, Len(rq[h].pre)) = rq[h].pre
      /\ \A k \in 1..Len(rq[h].data) :
           table[Len(rq[h].pre) + k].f = Params(rq[h].data[k])

\* C2 witness: an append of two records over a table of two.
C2_Witness ==
  /\ Ingested(1) /\ rq[1].append /\ rq[1].pc = "done"
  /\ Len(rq[1].pre) = 2 /\ Len(rq[1].data) = 2 /\ Len(table) = 4

\* C3: a record whose INSERT raises is skipped: the rows added are exactly
\* the other records of the batch, in order, the count returned is their
\* number, and the upload is answered 200.
C3_FailedRecordsSkipped ==
  \A h \in H :
    Ingested(h) =>
      /\ Len(Added(h)) = Len(SelectSeq(rq[h].data, WellFormed))
      /\ \A k \in 1..Len(Added(h)) :
           Added(h)[k].f = Params(SelectSeq(rq[h].data, WellFormed)[k])
      /\ rq[h].count = Len(Added(h))
      /\ ~rq[h].error
      /\ rq[h].pc = "done" => rq[h].status = 200

\* C3 witness: a batch whose second record of three is no object: the
\* first and the third are in the table, the count is 2, the answer 200.
C3_Witness ==
  /\ Ingested(1) /\ rq[1].pc = "done" /\ rq[1].status = 200
  /\ Len(rq[1].data) = 3
  /\ WellFormed(rq[1].data[1]) /\ ~WellFormed(rq[1].data[2]) /\ WellFormed(rq[1].data[3])
  /\ rq[1].count = 2
  /\ Len(Added(1)) = 2

\* C4: when the upload handler has returned, the scratch file it saved is
\* gone; a name with a disallowed extension is answered 400 and nothing
\* is saved for it.
C4_NoScratchFileLeft ==
  \A h \in H :
    (rq[h].op = "upload" /\ rq[h].pc = "done") =>
      /\ rq[h].saved => fs[rq[h].path] = NoBytes
      /\ (rq[h].hasFile /\ ~allowed_file(rq[h].fname)) =>
           (rq[h].status = 400 /\ ~rq[h].saved)

\* C5: the upload handler answers 400 to a request it rejects and to a
\* decode failure, and 500 to a store error raised in insert_data.
C5_StatusByFailure ==
  \A h \in H :
    (rq[h].op = "upload" /\ rq[h].pc = "done") =>
      /\ rq[h].exc \in {"validation", "decode"} => rq[h].status = 400
      /\ rq[h].exc = "store" => rq[h].status = 500

\* C6: the end_year stored for a record is the text of the input value when
\* the key is there with a non-null value, and null otherwise.
C6_EndYearText ==
  \A h \in H :
    Ingested(h) =>
      \A k \in 1..Len(Added(h)) :
        LET v == SelectSeq(rq[h].data, WellFormed)[k].m["end_year"]
        IN Added(h)[k].f["end_year"] =
             IF v \in {Absent, Null} THEN Null ELSE Str(StrOf(v))

\* C7: GET /api/data answers the records from the offset on: all of them
\* without a limit, at most L of them with a limit L.
C7_PageFromOffset ==
  \A h \in H :
    (rq[h].op = "data" /\ rq[h].pc = "done") =>
      /\ ~rq[h].hasLimit =>
           rq[h].out = SubSeq(table, rq[h].offset + 1, Len(table))
      /\ (rq[h].hasLimit /\ rq[h].limit >= 0) =>
           rq[h].out = SubSeq(table, rq[h].offset + 1,
                              Min(Len(table), rq[h].offset + rq[h].limit))

\* C8: no two rows of the table share an id, and every id an INSERT gives
\* out is greater than every id given out before it, whatever has been
\* deleted since.
C8_IdsUniqueIncreasing ==
  /\ \A i, j \in 1..Len(assigned) : i < j => assigned[i] < assigned[j]
  /\ \A i, j \in 1..Len(table) : i < j => table[i].id # table[j].id
  /\ \A i, j \in 1..Len(wtable) : i < j => wtable[i].id # wtable[j].id
  /\ Ids(table) \cup Ids(wtable) \subseteq {assigned[k] : k \in 1..Len(assigned)}

\* C8 witness: rows were inserted, all rows were removed, and a record
\* inserted afterwards has an id above the ids of the rows removed.
C8_Witness ==
  /\ table # <<>>
  /\ table[1].id > 2
  /\ Len(assigned) = table[Len(table)].id

\* C9, as stated: the DELETE of a replace ingest takes effect for other
\* connections on its own: while the ingest is between its DELETE and its
\* commit, a reader gets the rows of the ingest so far.
C9_DeleteVisibleBeforeCommit ==
  \A g \in H :
    (rq[g].pc = "loop" /\ ~rq[g].append /\ lock = g) =>
      ReadView(table, wtable) = wtable

\* C9, amended: a read made while a replace ingest is between its DELETE
\* and its commit gets the table as it was before the DELETE: never zero
\* rows of a non-empty table, never part of the new batch.
C9_ReadersSeeCommitted ==
  \A h \in H :
    (rq[h].pc = "done" /\ rq[h].mid # 0) =>
      /\ rq[h].op = "count" => rq[h].n = Len(rq[h].snap)
      /\ rq[h].op = "data" => rq[h].out = rq[h].snap

\* C9 witness: GET /api/data/count answered while a replace ingest over a
\* non-empty table has run its DELETE and not yet committed.
C9_Witness ==
  \E h \in H :
    /\ rq[h].op = "count" /\ rq[h].pc = "done" /\ rq[h].mid # 0
    /\ rq[h].snap # <<>>
    /\ lock = rq[h].mid /\ rq[lock].pc = "loop" /\ rq[lock].data # <<>>
    /\ wtable # table
    /\ rq[h].n = Len(table)

\* C10: an upload that got as far as decoding its scratch file decoded the
\* bytes it uploaded itself.
C10_OwnBytes ==
  \A h \in H :
    (rq[h].op = "upload" /\ rq[h].pc \in {"enter", "loop", "cleanup", "done"}
       /\ rq[h].exc \notin {"validation", "index"}) =>
      rq[h].got = rq[h].sent

====
